---- MODULE Spec2Model ----
(***************************************************************************)
(* Model of the Supabase upload provider for Strapi (src/src/index.ts and  *)
(* src/src/utils.ts).                                                      *)
(*                                                                         *)
(* A string is a sequence of characters (one-character TLA+ strings); a    *)
(* fixed text that is only ever concatenated and compared, such as an      *)
(* error prefix or a host name, is kept as one element.  Concatenation is  *)
(* \o.  An optional value (a property that may be undefined) is <<>> when  *)
(* absent and <<v>> when present.                                          *)
(***************************************************************************)
EXTENDS Integers, Sequences, FiniteSets, TLC

VARIABLES
    config,           \* providerOptions handed over by strapi.plugin('upload').config
    phase,            \* "init" before the default export ran, then "ready" or "failed"
    initError,        \* the message of the Error the default export threw, or NoError
    directory,        \* closure constant of index.ts:62
    publicFiles,      \* closure constant of index.ts:63
    signedUrlExpires, \* closure constant of index.ts:64
    storageClient,    \* the StorageClient handle of index.ts:70
    files,            \* the host's StrapiFile records, by identity
    calls,            \* every provider method invocation so far, in call order
    clientCalls,      \* every method invoked on storageClient.from(bucket), in order
    objects           \* the objects held by the storage backend

vars == <<config, phase, initError, directory, publicFiles, signedUrlExpires,
          storageClient, files, calls, clientCalls, objects>>

(* --------------------------- bounds ------------------------------------ *)

\* The number of provider method invocations in one behaviour.
MaxCalls == 2

(* --------------------------- optional values --------------------------- *)

Absent == <<>>

Some(v) == <<v>>

\* Variant: the supplied value is ignored and the default always taken.
Nullish_AlwaysDefault(x, d) == d

\* JavaScript's x ?? d
Nullish(x, d) == IF x = Absent THEN d ELSE x[1]

\* JavaScript's !x for an optional string: undefined and '' are falsy
Falsy(x) == x = Absent \/ x[1] = <<>>

Undefined == "undefined"

(* --------------------------- utils.ts ---------------------------------- *)

\* Variant: the key is sent without the scheme.
getBearerToken_NoScheme(apiKey) == apiKey

getBearerToken(apiKey) == <<"Bearer ">> \o apiKey

\* Variant: trailing slashes of the project URL are removed first.
RECURSIVE getStorageEndpoint_TrimsSlash(_)
getStorageEndpoint_TrimsSlash(apiUrl) ==
    IF apiUrl # <<>> /\ apiUrl[Len(apiUrl)] = "/"
    THEN getStorageEndpoint_TrimsSlash(SubSeq(apiUrl, 1, Len(apiUrl) - 1))
    ELSE apiUrl \o <<"/storage/v1">>

getStorageEndpoint(apiUrl) == apiUrl \o <<"/storage/v1">>

\* The pieces of a path between its "/" characters.
RECURSIVE Split(_)
Split(p) ==
    IF p = <<>> THEN << <<>> >>
    ELSE LET rest == Split(Tail(p)) IN
         IF Head(p) = "/" THEN << <<>> >> \o rest
         ELSE << <<Head(p)>> \o Head(rest) >> \o Tail(rest)

\* Node's normalizeString: drops empty and "." segments, resolves "..".
RECURSIVE NormalizeSegments(_, _, _)
NormalizeSegments(segs, acc, allowAboveRoot) ==
    IF segs = <<>> THEN acc
    ELSE LET s == Head(segs) IN
         IF s = <<>> \/ s = <<".">>
         THEN NormalizeSegments(Tail(segs), acc, allowAboveRoot)
         ELSE IF s = <<".", ".">>
         THEN IF acc # <<>> /\ acc[Len(acc)] # <<".", ".">>
              THEN NormalizeSegments(Tail(segs), SubSeq(acc, 1, Len(acc) - 1), allowAboveRoot)
              ELSE IF allowAboveRoot
              THEN NormalizeSegments(Tail(segs), Append(acc, s), allowAboveRoot)
              ELSE NormalizeSegments(Tail(segs), acc, allowAboveRoot)
         ELSE NormalizeSegments(Tail(segs), Append(acc, s), allowAboveRoot)

RECURSIVE JoinSegments(_)
JoinSegments(segs) ==
    IF segs = <<>> THEN <<>>
    ELSE IF Len(segs) = 1 THEN segs[1]
    ELSE segs[1] \o <<"/">> \o JoinSegments(Tail(segs))

\* Node's path.posix.normalize
PosixNormalize(p) ==
    IF p = <<>> THEN <<".">>
    ELSE LET isAbsolute == p[1] = "/"
             trailingSeparator == p[Len(p)] = "/"
             body == JoinSegments(NormalizeSegments(Split(p), <<>>, ~isAbsolute))
         IN  IF body = <<>>
             THEN IF isAbsolute THEN <<"/">>
                  ELSE IF trailingSeparator THEN <<".", "/">> ELSE <<".">>
             ELSE (IF isAbsolute THEN <<"/">> ELSE <<>>) \o body
                  \o (IF trailingSeparator THEN <<"/">> ELSE <<>>)

\* Node's path.posix.join of two arguments: empty arguments are skipped
PosixJoin(a, b) ==
    IF a = <<>> /\ b = <<>> THEN <<".">>
    ELSE IF a = <<>> THEN PosixNormalize(b)
    ELSE IF b = <<>> THEN PosixNormalize(a)
    ELSE PosixNormalize(a \o <<"/">> \o b)

\* Variant: the segments are joined as path.win32.join does, with a backslash.
getPathKey_Win32(file, dir) ==
    LET fileName == file.hash \o file.ext IN
    IF dir = <<>> THEN fileName ELSE dir \o <<"\\">> \o fileName

\* Variant: the extension is left out of the key.
getPathKey_NoExt(file, dir) ==
    IF dir = <<>> THEN file.hash ELSE PosixJoin(dir, file.hash)

getPathKey(file, dir) ==
    LET fileName == file.hash \o file.ext IN
    IF dir = <<>> THEN fileName ELSE PosixJoin(dir, fileName)

\* Variant: the binary convention.
kbytesToBytes_Binary(sizeInKb) == sizeInKb * 1024

kbytesToBytes(sizeInKb) == sizeInKb * 1000

(* --------------------------- inputs ------------------------------------ *)

ApiUrl == <<"https://test.supabase.co">>

ApiKey == <<"test-key">>

Bucket == <<"test-bucket">>

\* A required option as the host may supply it: missing, empty or set.
RequiredValues(v) == {Absent, Some(<<>>), Some(v)}

OptionalChoices ==
    { [directory |-> Absent, publicFiles |-> Absent, signedUrlExpires |-> Absent],
      [directory |-> Some(<<"u", "p">>), publicFiles |-> Some(FALSE),
       signedUrlExpires |-> Some(7200)],
      [directory |-> Some(<<"/", "u", "p", "/">>), publicFiles |-> Some(TRUE),
       signedUrlExpires |-> Absent],
      [directory |-> Some(<<>>), publicFiles |-> Some(FALSE),
       signedUrlExpires |-> Absent] }

ProviderConfigs ==
    { [apiUrl |-> a, apiKey |-> k, bucket |-> b, directory |-> o.directory,
       publicFiles |-> o.publicFiles, signedUrlExpires |-> o.signedUrlExpires] :
        a \in RequiredValues(ApiUrl), k \in RequiredValues(ApiKey),
        b \in RequiredValues(Bucket), o \in OptionalChoices }

FileIds == {1, 2}

\* File 1 is a new record (url ''), file 2 a record stored earlier.
InitialFiles ==
    [f \in FileIds |->
        IF f = 1
        THEN [name |-> <<"one.jpg">>, hash |-> <<"a", "b">>, ext |-> <<".", "j">>,
              mime |-> "image/jpeg", size |-> 100, url |-> <<>>,
              buffer |-> Some("buffer1"), stream |-> Absent]
        ELSE [name |-> <<"two.png">>, hash |-> <<"c">>, ext |-> <<".", "p">>,
              mime |-> "image/png", size |-> 50, url |-> <<"o", "l", "d">>,
              buffer |-> Absent, stream |-> Some("stream2")]]

(* --------------------------- construction ------------------------------ *)

NoError == <<>>

NoClient == [url |-> <<>>, headers |-> [apikey |-> <<>>, Authorization |-> <<>>]]

ConfigErrorMessage ==
    <<"Supabase provider requires apiUrl, apiKey, and bucket configuration. ",
      "Please check your plugin configuration.">>

Init ==
    /\ config \in ProviderConfigs
    /\ phase = "init"
    /\ initError = NoError
    /\ directory = Undefined
    /\ publicFiles = Undefined
    /\ signedUrlExpires = Undefined
    /\ storageClient = NoClient
    /\ files = InitialFiles
    /\ calls = <<>>
    /\ clientCalls = <<>>
    /\ objects = {}

\* Variant: only a missing option is refused, an empty one is accepted.
ConfigMissing_EmptyAccepted(cfg) ==
    cfg.apiUrl = Absent \/ cfg.apiKey = Absent \/ cfg.bucket = Absent

\* index.ts:54
ConfigMissing(cfg) == Falsy(cfg.apiUrl) \/ Falsy(cfg.apiKey) \/ Falsy(cfg.bucket)

\* index.ts:70-73
NewStorageClient(cfg) ==
    [url |-> getStorageEndpoint(cfg.apiUrl[1]),
     headers |-> [apikey |-> cfg.apiKey[1],
                  Authorization |-> getBearerToken(cfg.apiKey[1])]]

\* The default export of index.ts: validate, default, create the client.
Construct ==
    /\ phase = "init"
    /\ IF ConfigMissing(config)
       THEN /\ phase' = "failed"
            /\ initError' = ConfigErrorMessage
            /\ UNCHANGED <<directory, publicFiles, signedUrlExpires, storageClient>>
       ELSE /\ phase' = "ready"
            /\ directory' = Nullish(config.directory, <<>>)
            /\ publicFiles' = Nullish(config.publicFiles, TRUE)
            /\ signedUrlExpires' = Nullish(config.signedUrlExpires, 3600)
            /\ storageClient' = NewStorageClient(config)
            /\ UNCHANGED initError
    /\ UNCHANGED <<config, files, calls, clientCalls, objects>>

(* --------------------------- bytesToHumanReadable ---------------------- *)

Units == <<"Bytes", "KB", "MB", "GB", "TB", "PB">>

DigitChars == <<"0", "1", "2", "3", "4", "5", "6", "7", "8", "9">>

RECURSIVE NatToString(_)
NatToString(n) ==
    IF n < 10 THEN <<DigitChars[n + 1]>>
    ELSE NatToString(n \div 10) \o <<DigitChars[(n % 10) + 1]>>

\* A JavaScript number holding a non-negative integer, written as its
\* base-1000 groups, most significant first: 1500000 is <<1, 500, 0>>.
RECURSIVE Groups(_)
Groups(n) == IF n < 1000 THEN <<n>> ELSE Groups(n \div 1000) \o <<n % 1000>>

\* Math.floor(Math.log(bytes) / Math.log(1000)) for an integer bytes >= 1:
\* one less than its number of groups.  The values used here stay clear of
\* the integers just below 10^15 and 10^18, where the rounded quotient of the
\* two logarithms can reach the next whole number.
FloorLog1000(bytes) == Len(bytes) - 1

\* bytes / Math.pow(1000, i) for i = FloorLog1000(bytes), in thousandths: the
\* first group and the next; lower groups cannot change the hundredth the
\* quotient is rounded to.
Thousandths(bytes) == bytes[1] * 1000 + (IF Len(bytes) > 1 THEN bytes[2] ELSE 0)

\* (num / den).toFixed(2): the quotient rounded to hundredths, two decimals
\* always shown.  The inputs used here have no tie at the third decimal.
ToFixed2(num, den) ==
    LET hundredths == (2 * 100 * num + den) \div (2 * den) IN
    NatToString(hundredths \div 100) \o <<".">>
        \o <<DigitChars[((hundredths \div 10) % 10) + 1]>>
        \o <<DigitChars[(hundredths % 10) + 1]>>

\* utils.ts:40-51, on a number given by its groups
bytesToHumanReadable(bytes) ==
    IF bytes = <<0>> THEN <<"0", " ", "Bytes">>
    ELSE LET i == FloorLog1000(bytes) IN
         ToFixed2(Thousandths(bytes), 1000) \o <<" ">>
            \o <<(IF i + 1 \in DOMAIN Units THEN Units[i + 1] ELSE "undefined")>>

(* --------------------------- the storage client ------------------------ *)

\* What a method of storageClient.from(bucket) answers: a promise that is
\* fulfilled with {data, error} or rejected with a reason.
NoResp == [status |-> "none", data |-> Absent, error |-> Absent, reason |-> <<>>]

Fulfilled(data) == [status |-> "fulfilled", data |-> Some(data), error |-> Absent, reason |-> <<>>]

ErrorValue(message) == [status |-> "fulfilled", data |-> Absent, error |-> Some(message), reason |-> <<>>]

Rejected(reason) == [status |-> "rejected", data |-> Absent, error |-> Absent, reason |-> reason]

\* The messages of the errors the backend returns, and of the one the client throws.
BackendErrors == {<<"Bucket not found">>, <<"Object not found">>}

ThrownErrors == {<<"fetch failed">>}

\* getPublicUrl: <endpoint>/object/public/<bucket>/<key>
PublicUrlOf(client, bucket, path) ==
    client.url \o <<"/object/public/">> \o bucket \o <<"/">> \o path

\* createSignedUrl's answer: <endpoint>/object/sign/<bucket>/<key>?token=...
SignedUrlOf(client, bucket, path) ==
    client.url \o <<"/object/sign/">> \o bucket \o <<"/">> \o path \o <<"?token=", "t">>

\* The request of call c that is awaiting its answer.
RequestOf(c) ==
    clientCalls[CHOOSE i \in 1..Len(clientCalls) :
                    clientCalls[i].call = c /\ clientCalls[i].method # "getPublicUrl"]

NoOptions == [contentType |-> "", duplex |-> "", upsert |-> FALSE, cacheControl |-> ""]

(* --------------------------- provider methods -------------------------- *)

\* A call's record: its method, its file, where it stands ("await" the client's
\* answer, "resume" after it, "done"), its local filePath, the answer it
\* awaited, how its promise ended and with what value or error message,
\* urlWrites, the number of assignments to file.url it has executed, and the
\* sizeLimit option it was given (checkFileSize only, 0 otherwise).
NewCall(op, f, pc, filePath, outcome, value) ==
    [op |-> op, file |-> f, pc |-> pc, filePath |-> filePath, resp |-> NoResp,
     outcome |-> outcome, value |-> value, urlWrites |-> 0, sizeLimit |-> 0,
     bytes |-> <<>>]

\* The async function of call c ends: its promise resolves or rejects.
Settle(c, outcome, value, writes) ==
    calls' = [calls EXCEPT ![c].pc = "done", ![c].outcome = outcome,
                           ![c].value = value, ![c].urlWrites = @ + writes]

CanCall == phase = "ready" /\ Len(calls) < MaxCalls

Resuming(c, ops) == c \in 1..Len(calls) /\ calls[c].pc = "resume" /\ calls[c].op \in ops

\* index.ts:101: file.stream || file.buffer!
Payload(file) == IF file.stream # Absent THEN file.stream ELSE file.buffer

\* Variant: the key sent is the file name alone, without the directory.
UploadRequest_NoDirectory(c, file, filePath) ==
    [call |-> c, method |-> "upload", bucket |-> config.bucket[1],
     path |-> file.hash \o file.ext,
     body |-> Payload(file), expiresIn |-> 0,
     options |-> [contentType |-> file.mime, duplex |-> "half", upsert |-> TRUE,
                  cacheControl |-> "3600"]]

\* Variant: the upload is sent without the overwrite policy.
UploadRequest_NoUpsert(c, file, filePath) ==
    [call |-> c, method |-> "upload", bucket |-> config.bucket[1], path |-> filePath,
     body |-> Payload(file), expiresIn |-> 0,
     options |-> [contentType |-> file.mime, duplex |-> "half", upsert |-> FALSE,
                  cacheControl |-> "3600"]]

\* index.ts:99-106: the upload request
UploadRequest(c, file, filePath) ==
    [call |-> c, method |-> "upload", bucket |-> config.bucket[1], path |-> filePath,
     body |-> Payload(file), expiresIn |-> 0,
     options |-> [contentType |-> file.mime, duplex |-> "half", upsert |-> TRUE,
                  cacheControl |-> "3600"]]

\* Variant: the key is computed by the first upload and kept for later ones.
uploadFile_KeptKey(op, f) ==
    LET earlier == {d \in 1..Len(calls) : calls[d].op \in {"upload", "uploadStream"}}
        filePath == IF earlier = {} THEN getPathKey(files[f], directory)
                    ELSE calls[CHOOSE d \in earlier : \A e \in earlier : d <= e].filePath
        c == Len(calls) + 1
    IN  /\ CanCall
        /\ clientCalls' = Append(clientCalls, UploadRequest(c, files[f], filePath))
        /\ calls' = Append(calls, NewCall(op, f, "await", filePath, "pending", <<>>))
        /\ UNCHANGED <<config, phase, initError, directory, publicFiles,
                       signedUrlExpires, storageClient, files, objects>>

\* index.ts:94-106: uploadFile up to its await
uploadFile(op, f) ==
    LET filePath == getPathKey(files[f], directory)
        c == Len(calls) + 1
    IN  /\ CanCall
        /\ clientCalls' = Append(clientCalls, UploadRequest(c, files[f], filePath))
        /\ calls' = Append(calls, NewCall(op, f, "await", filePath, "pending", <<>>))
        /\ UNCHANGED <<config, phase, initError, directory, publicFiles,
                       signedUrlExpires, storageClient, files, objects>>

\* index.ts:150-152
Upload(f) == uploadFile("upload", f)

\* Variant: the stream entry point sends file.stream only, without the buffer
\* fallback.
UploadStream_StreamOnly(f) ==
    LET filePath == getPathKey(files[f], directory)
        c == Len(calls) + 1
    IN  /\ CanCall
        /\ clientCalls' = Append(clientCalls,
                [UploadRequest(c, files[f], filePath) EXCEPT !.body = files[f].stream])
        /\ calls' = Append(calls, NewCall("uploadStream", f, "await", filePath, "pending", <<>>))
        /\ UNCHANGED <<config, phase, initError, directory, publicFiles,
                       signedUrlExpires, storageClient, files, objects>>

\* index.ts:171-173
UploadStream(f) == uploadFile("uploadStream", f)

\* Variant: the backend's text is left out of the message.
UploadErrorMessage_NoBackendText(message) == <<"Failed to upload file to Supabase">>

\* index.ts:110
UploadErrorMessage(message) == <<"Failed to upload file to Supabase: ">> \o message

\* Variant: the error returned by the client is not looked at.
UploadFailed_Ignored(resp) == FALSE

\* index.ts:109: if (error)
UploadFailed(resp) == resp.error # Absent

\* Variant: the public URL is resolved whatever the visibility mode.
UploadResolvesPublicUrl_Always == TRUE

\* index.ts:114: if (publicFiles)
UploadResolvesPublicUrl == publicFiles

\* Variant: the file and key being uploaded are kept in one slot shared by
\* all calls, so a resumed call works on the file of the latest call.
UploadFileResume_SharedFile(c) ==
    /\ Resuming(c, {"upload", "uploadStream"})
    /\ LET call == calls[c]
           f == calls[Len(calls)].file
           filePath == calls[Len(calls)].filePath
       IN  IF call.resp.status = "rejected"
           THEN /\ Settle(c, "rejected", call.resp.reason, 0)
                /\ UNCHANGED <<files, clientCalls>>
           ELSE IF UploadFailed(call.resp)
           THEN /\ Settle(c, "rejected", UploadErrorMessage(call.resp.error[1]), 0)
                /\ UNCHANGED <<files, clientCalls>>
           ELSE IF UploadResolvesPublicUrl
           THEN /\ clientCalls' = Append(clientCalls,
                        [call |-> c, method |-> "getPublicUrl",
                         bucket |-> config.bucket[1], path |-> filePath,
                         body |-> Absent, expiresIn |-> 0, options |-> NoOptions])
                /\ files' = [files EXCEPT
                        ![f].url = PublicUrlOf(storageClient, config.bucket[1], filePath)]
                /\ Settle(c, "resolved", <<>>, 1)
           ELSE /\ files' = [files EXCEPT ![f].url = filePath]
                /\ Settle(c, "resolved", <<>>, 1)
                /\ UNCHANGED clientCalls
    /\ UNCHANGED <<config, phase, initError, directory, publicFiles,
                   signedUrlExpires, storageClient, objects>>

\* Variant: after a successful upload file.mime is set to a generic type.
UploadFileResume_ResetsMime(c) ==
    /\ Resuming(c, {"upload", "uploadStream"})
    /\ LET call == calls[c]
           f == call.file
       IN  IF call.resp.status = "rejected"
           THEN /\ Settle(c, "rejected", call.resp.reason, 0)
                /\ UNCHANGED <<files, clientCalls>>
           ELSE IF UploadFailed(call.resp)
           THEN /\ Settle(c, "rejected", UploadErrorMessage(call.resp.error[1]), 0)
                /\ UNCHANGED <<files, clientCalls>>
           ELSE IF UploadResolvesPublicUrl
           THEN /\ clientCalls' = Append(clientCalls,
                        [call |-> c, method |-> "getPublicUrl",
                         bucket |-> config.bucket[1], path |-> call.filePath,
                         body |-> Absent, expiresIn |-> 0, options |-> NoOptions])
                /\ files' = [files EXCEPT
                        ![f].url = PublicUrlOf(storageClient, config.bucket[1], call.filePath),
                        ![f].mime = "application/octet-stream"]
                /\ Settle(c, "resolved", <<>>, 1)
           ELSE /\ files' = [files EXCEPT ![f].url = call.filePath,
                                          ![f].mime = "application/octet-stream"]
                /\ Settle(c, "resolved", <<>>, 1)
                /\ UNCHANGED clientCalls
    /\ UNCHANGED <<config, phase, initError, directory, publicFiles,
                   signedUrlExpires, storageClient, objects>>

\* index.ts:108-128: uploadFile after its await
UploadFileResume(c) ==
    /\ Resuming(c, {"upload", "uploadStream"})
    /\ LET call == calls[c]
           f == call.file
       IN  IF call.resp.status = "rejected"
           THEN /\ Settle(c, "rejected", call.resp.reason, 0)
                /\ UNCHANGED <<files, clientCalls>>
           ELSE IF UploadFailed(call.resp)
           THEN /\ Settle(c, "rejected", UploadErrorMessage(call.resp.error[1]), 0)
                /\ UNCHANGED <<files, clientCalls>>
           ELSE IF UploadResolvesPublicUrl
           THEN /\ clientCalls' = Append(clientCalls,
                        [call |-> c, method |-> "getPublicUrl",
                         bucket |-> config.bucket[1], path |-> call.filePath,
                         body |-> Absent, expiresIn |-> 0, options |-> NoOptions])
                /\ files' = [files EXCEPT
                        ![f].url = PublicUrlOf(storageClient, config.bucket[1], call.filePath),
                        ![f].mime = files[f].mime]
                /\ Settle(c, "resolved", <<>>, 1)
           ELSE /\ files' = [files EXCEPT ![f].url = call.filePath,
                                          ![f].mime = files[f].mime]
                /\ Settle(c, "resolved", <<>>, 1)
                /\ UNCHANGED clientCalls
    /\ UNCHANGED <<config, phase, initError, directory, publicFiles,
                   signedUrlExpires, storageClient, objects>>

\* Variant: the key is taken from file.url.
RemovePaths_FromUrl(file) == <<file.url>>

\* index.ts:195-200: the key list handed to remove
RemovePaths(file) == <<getPathKey(file, directory)>>

\* index.ts:191-200: delete up to its await
Delete(f) ==
    LET c == Len(calls) + 1
    IN  /\ CanCall
        /\ clientCalls' = Append(clientCalls,
                [call |-> c, method |-> "remove", bucket |-> config.bucket[1],
                 path |-> RemovePaths(files[f]), body |-> Absent, expiresIn |-> 0,
                 options |-> NoOptions])
        /\ calls' = Append(calls, NewCall("delete", f, "await", <<>>, "pending", <<>>))
        /\ UNCHANGED <<config, phase, initError, directory, publicFiles,
                       signedUrlExpires, storageClient, files, objects>>

\* index.ts:204
DeleteErrorMessage(message) == <<"Failed to delete file from Supabase: ">> \o message

\* Variant: the error returned by the client is not looked at.
DeleteFailed_Ignored(resp) == FALSE

\* index.ts:203: if (error)
DeleteFailed(resp) == resp.error # Absent

\* Variant: a successful delete clears file.url.
DeleteResume_ClearsUrl(c) ==
    /\ Resuming(c, {"delete"})
    /\ LET call == calls[c]
       IN  IF call.resp.status = "rejected"
           THEN Settle(c, "rejected", call.resp.reason, 0) /\ UNCHANGED files
           ELSE IF DeleteFailed(call.resp)
           THEN /\ Settle(c, "rejected", DeleteErrorMessage(call.resp.error[1]), 0)
                /\ UNCHANGED files
           ELSE /\ Settle(c, "resolved", <<>>, 0)
                /\ files' = [files EXCEPT ![call.file].url = <<>>]
    /\ UNCHANGED <<config, phase, initError, directory, publicFiles,
                   signedUrlExpires, storageClient, clientCalls, objects>>

\* Variant: a refused delete is sent once more before the failure is reported.
DeleteResume_Retries(c) ==
    /\ Resuming(c, {"delete"})
    /\ LET call == calls[c]
           sent == {i \in 1..Len(clientCalls) : clientCalls[i].call = c}
       IN  IF call.resp.status = "rejected"
           THEN Settle(c, "rejected", call.resp.reason, 0) /\ UNCHANGED clientCalls
           ELSE IF DeleteFailed(call.resp) /\ Cardinality(sent) = 1
           THEN /\ clientCalls' = Append(clientCalls, RequestOf(c))
                /\ calls' = [calls EXCEPT ![c].pc = "await", ![c].resp = NoResp]
           ELSE IF DeleteFailed(call.resp)
           THEN /\ Settle(c, "rejected", DeleteErrorMessage(call.resp.error[1]), 0)
                /\ UNCHANGED clientCalls
           ELSE Settle(c, "resolved", <<>>, 0) /\ UNCHANGED clientCalls
    /\ UNCHANGED <<config, phase, initError, directory, publicFiles,
                   signedUrlExpires, storageClient, files, objects>>

\* index.ts:202-208: delete after its await
DeleteResume(c) ==
    /\ Resuming(c, {"delete"})
    /\ LET call == calls[c]
       IN  IF call.resp.status = "rejected"
           THEN Settle(c, "rejected", call.resp.reason, 0)
           ELSE IF DeleteFailed(call.resp)
           THEN Settle(c, "rejected", DeleteErrorMessage(call.resp.error[1]), 0)
           ELSE Settle(c, "resolved", <<>>, 0)
    /\ UNCHANGED <<config, phase, initError, directory, publicFiles,
                   signedUrlExpires, storageClient, files, clientCalls, objects>>

SizeLimits == {50000}

SizeErrorMessage(file, sizeLimit) ==
    file.name \o <<" exceeds size limit of ">> \o bytesToHumanReadable(Groups(sizeLimit))

\* Variant: file.size is converted to bytes in place before the comparison.
CheckFileSize_ConvertsInPlace(f, sizeLimit) ==
    LET fileSizeInBytes == kbytesToBytes(files[f].size)
    IN  /\ CanCall
        /\ files' = [files EXCEPT ![f].size = fileSizeInBytes]
        /\ calls' = Append(calls,
                [(IF fileSizeInBytes > sizeLimit
                  THEN NewCall("checkFileSize", f, "done", <<>>, "rejected",
                               SizeErrorMessage(files[f], sizeLimit))
                  ELSE NewCall("checkFileSize", f, "done", <<>>, "resolved", <<>>))
                 EXCEPT !.sizeLimit = sizeLimit])
        /\ UNCHANGED <<config, phase, initError, directory, publicFiles,
                       signedUrlExpires, storageClient, clientCalls, objects>>

\* index.ts:228-242
CheckFileSize(f, sizeLimit) ==
    LET fileSizeInBytes == kbytesToBytes(files[f].size)
    IN  /\ CanCall
        /\ calls' = Append(calls,
                [(IF fileSizeInBytes > sizeLimit
                  THEN NewCall("checkFileSize", f, "done", <<>>, "rejected",
                               SizeErrorMessage(files[f], sizeLimit))
                  ELSE NewCall("checkFileSize", f, "done", <<>>, "resolved", <<>>))
                 EXCEPT !.sizeLimit = sizeLimit])
        /\ UNCHANGED <<config, phase, initError, directory, publicFiles,
                       signedUrlExpires, storageClient, files, clientCalls, objects>>

\* Variant: the flag is returned as it is.
isPrivate_NotNegated == publicFiles

\* index.ts:265
isPrivate == ~publicFiles

\* index.ts:263-266: a synchronous call; value holds the boolean returned
IsPrivate ==
    /\ CanCall
    /\ calls' = Append(calls, NewCall("isPrivate", 0, "done", <<>>, "returned", <<isPrivate>>))
    /\ UNCHANGED <<config, phase, initError, directory, publicFiles,
                   signedUrlExpires, storageClient, files, clientCalls, objects>>

\* Variant: the lifetime is the default, whatever was configured.
SignedUrlRequest_DefaultExpiry(c, file) ==
    [call |-> c, method |-> "createSignedUrl", bucket |-> config.bucket[1],
     path |-> file.url, body |-> Absent, expiresIn |-> 3600,
     options |-> NoOptions]

\* Variant: the key is rebuilt from the hash and extension, without the directory.
SignedUrlRequest_NoDirectory(c, file) ==
    [call |-> c, method |-> "createSignedUrl", bucket |-> config.bucket[1],
     path |-> file.hash \o file.ext, body |-> Absent, expiresIn |-> signedUrlExpires,
     options |-> NoOptions]

\* index.ts:312-317: the signed-link request
SignedUrlRequest(c, file) ==
    [call |-> c, method |-> "createSignedUrl", bucket |-> config.bucket[1],
     path |-> file.url, body |-> Absent, expiresIn |-> signedUrlExpires,
     options |-> NoOptions]

\* index.ts:304-317: getSignedUrl up to its return or await; value holds
\* the url of the object returned
GetSignedUrl(f) ==
    LET c == Len(calls) + 1
    IN  /\ CanCall
        /\ IF ~isPrivate
           THEN /\ calls' = Append(calls, NewCall("getSignedUrl", f, "done", <<>>,
                                                   "resolved", <<files[f].url>>))
                /\ UNCHANGED clientCalls
           ELSE /\ clientCalls' = Append(clientCalls, SignedUrlRequest(c, files[f]))
                /\ calls' = Append(calls, NewCall("getSignedUrl", f, "await",
                                                   files[f].url, "pending", <<>>))
        /\ UNCHANGED <<config, phase, initError, directory, publicFiles,
                       signedUrlExpires, storageClient, files, objects>>

\* index.ts:321
SignedUrlErrorMessage(message) == <<"Failed to generate signed URL: ">> \o message

\* Variant: a backend error is answered with a placeholder URL.
GetSignedUrlResume_Sentinel(c) ==
    /\ Resuming(c, {"getSignedUrl"})
    /\ LET call == calls[c]
       IN  IF call.resp.status = "rejected"
           THEN Settle(c, "rejected", call.resp.reason, 0)
           ELSE IF call.resp.error # Absent
           THEN Settle(c, "resolved", <<<<"#error-generating-signed-url">>>>, 0)
           ELSE Settle(c, "resolved", <<call.resp.data[1].signedUrl>>, 0)
    /\ UNCHANGED <<config, phase, initError, directory, publicFiles,
                   signedUrlExpires, storageClient, files, clientCalls, objects>>

\* Variant: the signed link is also stored in file.url.
GetSignedUrlResume_PersistsLink(c) ==
    /\ Resuming(c, {"getSignedUrl"})
    /\ LET call == calls[c]
       IN  IF call.resp.status = "rejected"
           THEN Settle(c, "rejected", call.resp.reason, 0) /\ UNCHANGED files
           ELSE IF call.resp.error # Absent
           THEN /\ Settle(c, "rejected", SignedUrlErrorMessage(call.resp.error[1]), 0)
                /\ UNCHANGED files
           ELSE /\ Settle(c, "resolved", <<call.resp.data[1].signedUrl>>, 0)
                /\ files' = [files EXCEPT ![call.file].url = call.resp.data[1].signedUrl]
    /\ UNCHANGED <<config, phase, initError, directory, publicFiles,
                   signedUrlExpires, storageClient, clientCalls, objects>>

\* index.ts:319-325: getSignedUrl after its await
GetSignedUrlResume(c) ==
    /\ Resuming(c, {"getSignedUrl"})
    /\ LET call == calls[c]
       IN  IF call.resp.status = "rejected"
           THEN Settle(c, "rejected", call.resp.reason, 0)
           ELSE IF call.resp.error # Absent
           THEN Settle(c, "rejected", SignedUrlErrorMessage(call.resp.error[1]), 0)
           ELSE Settle(c, "resolved", <<call.resp.data[1].signedUrl>>, 0)
    /\ UNCHANGED <<config, phase, initError, directory, publicFiles,
                   signedUrlExpires, storageClient, files, clientCalls, objects>>

(* --------------------------- the backend ------------------------------- *)

Awaiting(c) == c \in 1..Len(calls) /\ calls[c].pc = "await"

Answer(c, resp) == calls' = [calls EXCEPT ![c].resp = resp, ![c].pc = "resume"]

SameObject(o, bucket, path) == o.bucket = bucket /\ o.key = path

\* The backend carries the request out and the client fulfils the promise.
BackendSucceeds(c) ==
    /\ Awaiting(c)
    /\ LET req == RequestOf(c)
       IN  CASE req.method = "upload" ->
                  /\ req.options.upsert
                        \/ ~\E o \in objects : SameObject(o, req.bucket, req.path)
                  /\ objects' = {o \in objects : ~SameObject(o, req.bucket, req.path)}
                        \cup {[bucket |-> req.bucket, key |-> req.path,
                               contentType |-> req.options.contentType,
                               body |-> req.body, writtenBy |-> c]}
                  /\ Answer(c, Fulfilled([path |-> req.path]))
             [] req.method = "remove" ->
                  /\ objects' = {o \in objects :
                        ~\E i \in 1..Len(req.path) : SameObject(o, req.bucket, req.path[i])}
                  /\ Answer(c, Fulfilled([path |-> req.path]))
             [] req.method = "createSignedUrl" ->
                  /\ objects' = objects
                  /\ Answer(c, Fulfilled([signedUrl |->
                        SignedUrlOf(storageClient, req.bucket, req.path)]))
    /\ UNCHANGED <<config, phase, initError, directory, publicFiles,
                   signedUrlExpires, storageClient, files, clientCalls>>

\* The backend refuses: the client fulfils the promise with {data: null, error}.
BackendReturnsError(c, message) ==
    /\ Awaiting(c)
    /\ Answer(c, ErrorValue(message))
    /\ UNCHANGED <<config, phase, initError, directory, publicFiles,
                   signedUrlExpires, storageClient, files, clientCalls, objects>>

\* The client call itself fails: the promise is rejected.
ClientRejects(c, reason) ==
    /\ Awaiting(c)
    /\ Answer(c, Rejected(reason))
    /\ UNCHANGED <<config, phase, initError, directory, publicFiles,
                   signedUrlExpires, storageClient, files, clientCalls, objects>>

CallIds == 1..MaxCalls

Next ==
    \/ Construct
    \/ \E f \in FileIds : Upload(f)
    \/ \E f \in FileIds : UploadStream(f)
    \/ \E f \in FileIds : Delete(f)
    \/ \E f \in FileIds, sizeLimit \in SizeLimits : CheckFileSize(f, sizeLimit)
    \/ IsPrivate
    \/ \E f \in FileIds : GetSignedUrl(f)
    \/ \E c \in CallIds : UploadFileResume(c)
    \/ \E c \in CallIds : DeleteResume(c)
    \/ \E c \in CallIds : GetSignedUrlResume(c)
    \/ \E c \in CallIds : BackendSucceeds(c)
    \/ \E c \in CallIds, m \in BackendErrors : BackendReturnsError(c, m)
    \/ \E c \in CallIds, m \in ThrownErrors : ClientRejects(c, m)

Spec == Init /\ [][Next]_vars

(* --------------------------- properties -------------------------------- *)

Started == 1..Len(calls)

IsUploadCall(c) == calls[c].op \in {"upload", "uploadStream"}

\* The positions in clientCalls of the calls of `method` made by call c.
ClientCallsOf(c, method) ==
    {i \in 1..Len(clientCalls) : clientCalls[i].call = c /\ clientCalls[i].method = method}

\* The client answered call c with {data: null, error}.
ReturnedError(c) == calls[c].resp.status = "fulfilled" /\ calls[c].resp.error # Absent

\* The client answered call c with {data, error: null}.
ReportedSuccess(c) == calls[c].resp.status = "fulfilled" /\ calls[c].resp.error = Absent

C1_WritesOnlyAfterSuccess ==
    \A c \in Started :
        IsUploadCall(c) =>
            /\ calls[c].urlWrites <= 1
            /\ calls[c].urlWrites = 1 =>
                    ReportedSuccess(c) /\ calls[c].pc = "done" /\ calls[c].outcome = "resolved"

C1_UrlChangesOnlyBySuccessfulUpload ==
    \A f \in FileIds :
        files'[f].url # files[f].url =>
            \E c \in Started :
                /\ IsUploadCall(c) /\ calls[c].file = f
                /\ calls[c].pc = "resume" /\ ReportedSuccess(c)
                /\ calls'[c].urlWrites = 1

\* C1: an upload or uploadStream call assigns file.url at most once, and only
\* when the backend has reported success; a call that got an error, or has
\* not completed, has assigned nothing, and file.url changes in no other step
\* than the completion of a successful upload of that file.
C1_UrlWrittenOnceAfterSuccess ==
    [](C1_WritesOnlyAfterSuccess) /\ [][C1_UrlChangesOnlyBySuccessfulUpload]_vars

\* One upload wrote file.url after success while another, answered with an
\* error, left its file's url as it was.
C1_Witness ==
    \E c, d \in Started :
        /\ IsUploadCall(c) /\ calls[c].urlWrites = 1
        /\ IsUploadCall(d) /\ calls[d].pc = "done" /\ ReturnedError(d)
        /\ calls[d].file # calls[c].file
        /\ files[calls[d].file].url = InitialFiles[calls[d].file].url

RequiredMissing ==
    \E x \in {config.apiUrl, config.apiKey, config.bucket} : x = Absent \/ x = Some(<<>>)

\* C2: construction with apiUrl, apiKey or bucket absent or empty fails with
\* the one configuration error, creates no storage client and makes no call;
\* with all three non-empty it succeeds.
C2_ConstructionValidates ==
    phase # "init" =>
        IF RequiredMissing
        THEN /\ phase = "failed"
             /\ initError = <<"Supabase provider requires apiUrl, apiKey, and bucket configuration. ",
                              "Please check your plugin configuration.">>
             /\ storageClient = NoClient
             /\ clientCalls = <<>>
             /\ calls = <<>>
        ELSE /\ phase = "ready"
             /\ initError = NoError
             /\ storageClient # NoClient

\* Construction failed on a bucket that is present but empty.
C2_Witness ==
    /\ phase = "failed"
    /\ config.apiUrl = Some(ApiUrl) /\ config.apiKey = Some(ApiKey)
    /\ config.bucket = Some(<<>>)

\* C3: after a successful upload in public mode, file.url is the public URL
\* the client resolves, in the configured bucket, for getPathKey(file,
\* directory), which is the key the upload request carried.
C3_PublicUploadStoresPublicUrl ==
    phase = "ready" =>
        \A c \in Started :
            (IsUploadCall(c) /\ calls[c].outcome = "resolved" /\ publicFiles) =>
                LET f == calls[c].file
                    key == getPathKey(files[f], directory)
                IN  /\ \A i \in ClientCallsOf(c, "upload") :
                            clientCalls[i].path = key /\ clientCalls[i].bucket = config.bucket[1]
                    /\ Cardinality(ClientCallsOf(c, "getPublicUrl")) = 1
                    /\ \A i \in ClientCallsOf(c, "getPublicUrl") :
                            clientCalls[i].path = key /\ clientCalls[i].bucket = config.bucket[1]
                    /\ files[f].url = PublicUrlOf(storageClient, config.bucket[1], key)

\* A public upload under a directory has completed.
C3_Witness ==
    /\ phase = "ready" /\ publicFiles /\ directory # <<>>
    /\ \E c \in Started : IsUploadCall(c) /\ calls[c].outcome = "resolved"

\* C4: after a successful upload in private mode, file.url is exactly the key
\* the upload request carried (getPathKey(file, directory)), and the call
\* made no getPublicUrl call.
C4_PrivateUploadStoresKey ==
    phase = "ready" =>
        \A c \in Started :
            (IsUploadCall(c) /\ calls[c].outcome = "resolved" /\ ~publicFiles) =>
                LET f == calls[c].file
                IN  /\ ClientCallsOf(c, "upload") # {}
                    /\ \A i \in ClientCallsOf(c, "upload") : files[f].url = clientCalls[i].path
                    /\ files[f].url = getPathKey(files[f], directory)
                    /\ ClientCallsOf(c, "getPublicUrl") = {}

\* A private upload under a directory has completed.
C4_Witness ==
    /\ phase = "ready" /\ ~publicFiles /\ directory # <<>>
    /\ \E c \in Started : IsUploadCall(c) /\ calls[c].outcome = "resolved"

\* C5: an upload the backend answered with an error rejects with 'Failed to
\* upload file to Supabase: ' followed by the backend's message, and makes no
\* getPublicUrl call.
C5_UploadErrorPropagates ==
    \A c \in Started :
        (IsUploadCall(c) /\ calls[c].pc = "done" /\ ReturnedError(c)) =>
            /\ calls[c].outcome = "rejected"
            /\ calls[c].value = <<"Failed to upload file to Supabase: ">> \o calls[c].resp.error[1]
            /\ ClientCallsOf(c, "getPublicUrl") = {}

\* A public-mode upload was answered with 'Bucket not found' and has ended.
C5_Witness ==
    /\ phase = "ready" /\ publicFiles
    /\ \E c \in Started :
        /\ IsUploadCall(c) /\ calls[c].pc = "done"
        /\ calls[c].resp.error = Some(<<"Bucket not found">>)

\* C6: the key list delete hands to remove has one element, which is
\* getPathKey(file, directory): the key every upload of the same file sends,
\* whatever file.url holds and whichever visibility mode is configured.
C6_DeleteUsesUploadKey ==
    \A i \in 1..Len(clientCalls) :
        clientCalls[i].method = "remove" =>
            LET f == calls[clientCalls[i].call].file
            IN  /\ Len(clientCalls[i].path) = 1
                /\ clientCalls[i].path[1] = getPathKey(files[f], directory)
                /\ \A j \in 1..Len(clientCalls) :
                        (clientCalls[j].method = "upload" /\ calls[clientCalls[j].call].file = f)
                            => clientCalls[j].path = clientCalls[i].path[1]

\* A file was uploaded in public mode, so that its url is not its key, and
\* then deleted.
C6_Witness ==
    /\ phase = "ready" /\ publicFiles
    /\ \E i, j \in 1..Len(clientCalls) :
        /\ j < i
        /\ clientCalls[j].method = "upload" /\ clientCalls[i].method = "remove"
        /\ calls[clientCalls[j].call].file = calls[clientCalls[i].call].file
        /\ calls[clientCalls[j].call].outcome = "resolved"
        /\ files[calls[clientCalls[i].call].file].url # clientCalls[i].path[1]

\* C7: a delete the backend answered with an error rejects with 'Failed to
\* delete file from Supabase: ' followed by the backend's message; a delete
\* answered without error resolves.
C7_DeleteOutcome ==
    \A c \in Started :
        (calls[c].op = "delete" /\ calls[c].pc = "done") =>
            /\ ReturnedError(c) =>
                /\ calls[c].outcome = "rejected"
                /\ calls[c].value =
                        <<"Failed to delete file from Supabase: ">> \o calls[c].resp.error[1]
            /\ ReportedSuccess(c) => calls[c].outcome = "resolved"

\* One delete ended on a backend error and another ended without error.
C7_Witness ==
    \E c, d \in Started :
        /\ calls[c].op = "delete" /\ calls[c].pc = "done" /\ ReturnedError(c)
        /\ calls[d].op = "delete" /\ calls[d].pc = "done" /\ ReportedSuccess(d)

\* The step is a call of `op`: it adds the call's record.
CallStep(op) == Len(calls') = Len(calls) + 1 /\ calls'[Len(calls')].op = op

C8_PublicGetSignedUrlStep ==
    (phase = "ready" /\ CallStep("getSignedUrl") /\ publicFiles) =>
        LET call == calls'[Len(calls')]
        IN  /\ call.outcome = "resolved"
            /\ call.value = <<files[call.file].url>>
            /\ files' = files
            /\ clientCalls' = clientCalls

\* C8: in public mode getSignedUrl(file) returns {url: file.url}, leaves the
\* file as it is and calls nothing on the storage client.
C8_PublicGetSignedUrlIsLocal == [][C8_PublicGetSignedUrlStep]_vars

\* In public mode getSignedUrl has returned the url of a file whose url is
\* not empty.
C8_Witness ==
    /\ phase = "ready" /\ publicFiles
    /\ \E c \in Started :
        /\ calls[c].op = "getSignedUrl" /\ calls[c].outcome = "resolved"
        /\ calls[c].value # << <<>> >>

C9_PrivateGetSignedUrlCallStep ==
    (phase = "ready" /\ CallStep("getSignedUrl") /\ ~publicFiles) =>
        LET call == calls'[Len(calls')]
        IN  /\ call.outcome = "pending"
            /\ Len(clientCalls') = Len(clientCalls) + 1
            /\ SubSeq(clientCalls', 1, Len(clientCalls)) = clientCalls
            /\ LET req == clientCalls'[Len(clientCalls')]
               IN  /\ req.call = Len(calls') /\ req.method = "createSignedUrl"
                   /\ req.bucket = config.bucket[1]
                   /\ req.path = files[call.file].url
                   /\ req.expiresIn = (IF config.signedUrlExpires = Absent THEN 3600
                                       ELSE config.signedUrlExpires[1])

C9_PrivateGetSignedUrlReturnStep ==
    \A c \in Started :
        (calls[c].op = "getSignedUrl" /\ calls[c].pc # "done" /\ calls'[c].pc = "done") =>
            /\ clientCalls' = clientCalls
            /\ ReportedSuccess(c) =>
                /\ calls'[c].outcome = "resolved"
                /\ calls'[c].value = <<calls[c].resp.data[1].signedUrl>>

\* C9: in private mode getSignedUrl(file) makes one createSignedUrl call, with
\* file.url as the key and the configured signedUrlExpires (3600 by default)
\* as the lifetime, and on success returns the link the backend answered.
C9_PrivateGetSignedUrl ==
    [][C9_PrivateGetSignedUrlCallStep /\ C9_PrivateGetSignedUrlReturnStep]_vars

\* A signed link with the configured lifetime of 7200 was requested and
\* returned.
C9_Witness ==
    /\ phase = "ready" /\ ~publicFiles /\ signedUrlExpires = 7200
    /\ \E c \in Started :
        /\ calls[c].op = "getSignedUrl" /\ calls[c].outcome = "resolved"
        /\ calls[c].value = <<SignedUrlOf(storageClient, config.bucket[1], calls[c].filePath)>>

\* C10: a getSignedUrl the backend answered with an error rejects with
\* 'Failed to generate signed URL: ' followed by the backend's message; it
\* does not resolve.
C10_SignedUrlErrorPropagates ==
    \A c \in Started :
        (calls[c].op = "getSignedUrl" /\ calls[c].pc = "done" /\ ReturnedError(c)) =>
            /\ calls[c].outcome = "rejected"
            /\ calls[c].value = <<"Failed to generate signed URL: ">> \o calls[c].resp.error[1]

\* A signed-link request was answered with 'Object not found' and the call
\* has ended.
C10_Witness ==
    \E c \in Started :
        /\ calls[c].op = "getSignedUrl" /\ calls[c].pc = "done"
        /\ calls[c].resp.error = Some(<<"Object not found">>)
C11_SignedUrlAfterUploadStep ==
    (phase = "ready" /\ CallStep("getSignedUrl") /\ ~publicFiles) =>
        LET call == calls'[Len(calls')]
            req == clientCalls'[Len(clientCalls')]
        IN  \A c \in Started :
                (IsUploadCall(c) /\ calls[c].file = call.file /\ calls[c].outcome = "resolved") =>
                    /\ Len(clientCalls') = Len(clientCalls) + 1
                    /\ req.call = Len(calls') /\ req.method = "createSignedUrl"
                    /\ req.bucket = config.bucket[1]
                    /\ \A i \in ClientCallsOf(c, "upload") : req.path = clientCalls[i].path
                    /\ req.path = files[call.file].url
                    /\ req.expiresIn = (IF config.signedUrlExpires = Absent THEN 3600
                                        ELSE config.signedUrlExpires[1])

\* C11: in private mode, a getSignedUrl that follows a successful upload of
\* the same record requests a signed link for exactly the key that upload
\* sent and stored in file.url, with the configured lifetime.
C11_SignedUrlAddressesUploadedKey == [][C11_SignedUrlAfterUploadStep]_vars

\* Under a directory, file 1 was uploaded in private mode and a signed link
\* was then requested for the key the upload sent.
C11_Witness ==
    /\ phase = "ready" /\ ~publicFiles /\ directory # <<>>
    /\ \E c, d \in Started :
        /\ c < d
        /\ IsUploadCall(c) /\ calls[c].file = 1 /\ calls[c].outcome = "resolved"
        /\ calls[d].op = "getSignedUrl" /\ calls[d].file = 1
        /\ \E i \in ClientCallsOf(c, "upload"), j \in ClientCallsOf(d, "createSignedUrl") :
                clientCalls[j].path = clientCalls[i].path
(* --------------------------- checkFileSize over a range of sizes ------- *)

\* file.size values (kilobytes) and sizeLimit options (bytes) around the
\* boundary size * 1000 = sizeLimit.
SizeValues == {0, 49, 50, 51, 100}

WideSizeLimits == {0, 49999, 50000, 50001}

DefaultConfig ==
    [apiUrl |-> Some(ApiUrl), apiKey |-> Some(ApiKey), bucket |-> Some(Bucket),
     directory |-> Absent, publicFiles |-> Absent, signedUrlExpires |-> Absent]

SizeFiles ==
    { [f \in FileIds |-> [InitialFiles[f] EXCEPT !.size = s[f]]] : s \in [FileIds -> SizeValues] }

SizeInit ==
    /\ config = DefaultConfig
    /\ phase = "init"
    /\ initError = NoError
    /\ directory = Undefined
    /\ publicFiles = Undefined
    /\ signedUrlExpires = Undefined
    /\ storageClient = NoClient
    /\ files \in SizeFiles
    /\ calls = <<>>
    /\ clientCalls = <<>>
    /\ objects = {}

SizeNext ==
    \/ Construct
    \/ \E f \in FileIds, sizeLimit \in WideSizeLimits : CheckFileSize(f, sizeLimit)

SizeSpec == SizeInit /\ [][SizeNext]_vars

\* C12: checkFileSize(file, {sizeLimit}) rejects exactly when file.size * 1000
\* exceeds sizeLimit (equal passes), with the message '<file.name> exceeds
\* size limit of <bytesToHumanReadable(sizeLimit)>'; otherwise it resolves.
C12_SizeLimitDecision ==
    \A c \in Started :
        calls[c].op = "checkFileSize" =>
            LET file == files[calls[c].file]
                over == file.size * 1000 > calls[c].sizeLimit
            IN  /\ calls[c].pc = "done"
                /\ calls[c].outcome = (IF over THEN "rejected" ELSE "resolved")
                /\ over => calls[c].value =
                        file.name \o <<" exceeds size limit of ">>
                            \o bytesToHumanReadable(Groups(calls[c].sizeLimit))

\* A file of 50 KB passed a limit of 50000 bytes and was refused by a limit
\* of 49999 bytes.
C12_Witness ==
    \E c, d \in Started :
        /\ calls[c].op = "checkFileSize" /\ calls[d].op = "checkFileSize"
        /\ calls[c].file = calls[d].file /\ files[calls[c].file].size = 50
        /\ calls[c].sizeLimit = 50000 /\ calls[c].outcome = "resolved"
        /\ calls[d].sizeLimit = 49999 /\ calls[d].outcome = "rejected"
\* The provider's own state: its configuration, closure constants and client.
adapter == <<config, phase, initError, directory, publicFiles, signedUrlExpires, storageClient>>

C13_CheckFileSizeStep ==
    CallStep("checkFileSize") =>
        /\ calls'[Len(calls')].pc = "done"
        /\ calls'[Len(calls')].outcome \in {"resolved", "rejected"}
        /\ SubSeq(calls', 1, Len(calls)) = calls
        /\ clientCalls' = clientCalls
        /\ objects' = objects
        /\ files' = files
        /\ adapter' = adapter

\* C13: checkFileSize, passing or rejecting, ends at once without calling
\* the storage client and leaves the file records, the provider and every
\* other call as they were.
C13_CheckFileSizeIsPure == [][C13_CheckFileSizeStep]_vars

\* After an upload request was sent, checkFileSize refused file 1 and no
\* further storage client call was made.
C13_Witness ==
    \E c \in Started :
        /\ calls[c].op = "checkFileSize" /\ calls[c].outcome = "rejected"
        /\ c = 2 /\ Len(clientCalls) = 1
        /\ files = InitialFiles
C14_NonEmptyAfterUpload ==
    \A c \in Started :
        (IsUploadCall(c) /\ calls[c].outcome = "resolved") => files[calls[c].file].url # <<>>

C14_NeverBackToEmpty ==
    \A f \in FileIds : files[f].url # <<>> => files'[f].url # <<>>

\* C14: after a successful upload file.url is not empty, and no step of any
\* operation, succeeding or failing, makes a non-empty file.url empty again.
C14_UrlLifecycle == [](C14_NonEmptyAfterUpload) /\ [][C14_NeverBackToEmpty]_vars

\* File 1, whose url was empty, was uploaded and then deleted with success,
\* and its url is still set.
C14_Witness ==
    \E c, d \in Started :
        /\ IsUploadCall(c) /\ calls[c].file = 1 /\ calls[c].outcome = "resolved"
        /\ calls[d].op = "delete" /\ calls[d].file = 1 /\ calls[d].outcome = "resolved"
        /\ files[1].url # <<>>
\* The step belongs to call c: it makes the call or moves it on.
StepOfCall(c) ==
    /\ c \in 1..Len(calls')
    /\ c \in Started => calls'[c] # calls[c]

C15_OnlyUploadsWriteStep ==
    /\ \A c \in 1..Len(calls') :
            (StepOfCall(c) /\ calls'[c].op \in {"delete", "getSignedUrl"}) => files' = files
    /\ files' # files =>
            \E c \in Started :
                IsUploadCall(c) /\ calls[c].pc = "resume" /\ calls'[c].pc = "done"

C15_SignedLinkNotOnRecord ==
    \A c \in Started :
        (calls[c].op = "getSignedUrl" /\ calls[c].outcome = "resolved" /\ ReportedSuccess(c)) =>
            \A f \in FileIds : files[f].url # calls[c].value[1]

\* C15: no step of a delete or getSignedUrl call, successful or failed,
\* changes any field of any file record; records change only when an upload
\* or uploadStream completes; a signed link that getSignedUrl returned is
\* the url of no record.
C15_OnlyUploadsWrite == [](C15_SignedLinkNotOnRecord) /\ [][C15_OnlyUploadsWriteStep]_vars

\* A signed link was returned for file 2 while a delete failed, and the
\* records are as they were at the start.
C15_Witness ==
    \E c, d \in Started :
        /\ calls[c].op = "getSignedUrl" /\ calls[c].outcome = "resolved" /\ ReportedSuccess(c)
        /\ calls[c].file = 2
        /\ calls[d].op = "delete" /\ calls[d].outcome = "rejected"
        /\ files = InitialFiles
\* The visibility fixed at construction: the publicFiles option, true when
\* it was not supplied.
ConfiguredPublic == IF config.publicFiles = Absent THEN TRUE ELSE config.publicFiles[1]

C16_IsPrivateStep ==
    CallStep("isPrivate") =>
        /\ calls'[Len(calls')].pc = "done"
        /\ calls'[Len(calls')].value = <<~ConfiguredPublic>>
        /\ SubSeq(calls', 1, Len(calls)) = calls
        /\ clientCalls' = clientCalls
        /\ objects' = objects
        /\ files' = files
        /\ adapter' = adapter

\* C16: whatever operations came before, isPrivate() returns the negation of
\* the publicFiles value fixed at construction (false when publicFiles was
\* not configured), changes no state and calls nothing on the storage client.
C16_IsPrivateIsNegatedFlag == [][C16_IsPrivateStep]_vars

\* isPrivate returned false, publicFiles not being configured, after an
\* upload had completed.
C16_Witness ==
    /\ config.publicFiles = Absent
    /\ \E c, d \in Started :
        /\ c < d /\ IsUploadCall(c) /\ calls[c].outcome = "resolved"
        /\ calls[d].op = "isPrivate" /\ calls[d].value = <<FALSE>>
ObjectsAt(bucket, key) == {o \in objects : o.bucket = bucket /\ o.key = key}

\* A delete of file f has been carried out by the backend.
DeletedSince(f) ==
    \E d \in Started : calls[d].op = "delete" /\ calls[d].file = f /\ ReportedSuccess(d)

C17_UpsertNeverConflicts ==
    \A c \in Started :
        (IsUploadCall(c) /\ calls[c].pc = "await") =>
            /\ \A i \in ClientCallsOf(c, "upload") : clientCalls[i].options.upsert
            /\ ENABLED BackendSucceeds(c)

C17_OneObjectPerKey ==
    /\ \A o \in objects : Cardinality(ObjectsAt(o.bucket, o.key)) = 1
    /\ \A c \in Started :
            (IsUploadCall(c) /\ calls[c].outcome = "resolved" /\ ~DeletedSince(calls[c].file)) =>
                \A i \in ClientCallsOf(c, "upload") :
                    Cardinality(ObjectsAt(clientCalls[i].bucket, clientCalls[i].path)) = 1

C17_SecondUploadSameUrl ==
    \A d \in Started :
        (IsUploadCall(d) /\ calls[d].pc = "resume" /\ calls'[d].outcome = "resolved") =>
            \A c \in Started :
                (IsUploadCall(c) /\ calls[c].file = calls[d].file /\ calls[c].outcome = "resolved")
                    => files'[calls[d].file].url = files[calls[d].file].url

\* C17: every upload request carries upsert, so the backend can carry out an
\* upload whether or not an object already exists at its key; uploads of the
\* same record leave exactly one object at that key, and a second successful
\* upload leaves file.url as the first set it.
C17_UploadIdempotent ==
    [](C17_UpsertNeverConflicts /\ C17_OneObjectPerKey) /\ [][C17_SecondUploadSameUrl]_vars

\* File 1 was uploaded twice with success: one object is held at its key,
\* written by the second upload.
C17_Witness ==
    \E c, d \in Started :
        /\ c # d /\ IsUploadCall(c) /\ IsUploadCall(d)
        /\ calls[c].file = 1 /\ calls[d].file = 1
        /\ calls[c].outcome = "resolved" /\ calls[d].outcome = "resolved"
        /\ \E o \in objects : o.writtenBy = 2 /\ ObjectsAt(o.bucket, o.key) = {o}
\* The requests call c sent to the storage client, without the call's number.
RequestsOf(c) ==
    {[clientCalls[i] EXCEPT !.call = 0] : i \in {j \in 1..Len(clientCalls) : clientCalls[j].call = c}}

\* An upload call and an uploadStream call on the same record.
UploadPair(c, d) ==
    /\ c \in Started /\ d \in Started
    /\ calls[c].op = "upload" /\ calls[d].op = "uploadStream"
    /\ calls[c].file = calls[d].file

C18_SameRequestAndResult ==
    \A c, d \in Started :
        UploadPair(c, d) =>
            /\ calls[c].filePath = calls[d].filePath
            /\ \E i \in ClientCallsOf(c, "upload") : \E j \in ClientCallsOf(d, "upload") :
                    [clientCalls[i] EXCEPT !.call = 0] = [clientCalls[j] EXCEPT !.call = 0]
            /\ (calls[c].pc = "done" /\ calls[d].pc = "done" /\ calls[c].resp = calls[d].resp) =>
                    /\ calls[c].outcome = calls[d].outcome
                    /\ calls[c].value = calls[d].value
                    /\ calls[c].urlWrites = calls[d].urlWrites
                    /\ RequestsOf(c) = RequestsOf(d)

C18_SameUrlStep ==
    \A c, d \in Started :
        /\ \/ UploadPair(c, d)
           \/ UploadPair(d, c)
        /\ calls[c].outcome = "resolved"
        /\ calls[d].pc = "resume" /\ calls'[d].outcome = "resolved"
        => files'[calls[d].file].url = files[calls[d].file].url

\* C18: an uploadStream call and an upload call on the same record send the
\* same request (bucket, key, payload, options), and on the same backend
\* answer they end the same way: same outcome, same error, same file.url.
C18_UploadStreamSameAsUpload ==
    []C18_SameRequestAndResult /\ [][C18_SameUrlStep]_vars

\* The buffer-only record 1 went through upload and through uploadStream, and
\* both calls resolved.
C18_Witness ==
    \E c, d \in Started :
        /\ UploadPair(c, d) /\ calls[c].file = 1
        /\ files[1].stream = Absent
        /\ calls[c].outcome = "resolved" /\ calls[d].outcome = "resolved"
\* The prefix each operation puts before the backend's text.
OperationPrefix(op) ==
    CASE op \in {"upload", "uploadStream"} -> <<"Failed to upload file to Supabase: ">>
      [] op = "delete" -> <<"Failed to delete file from Supabase: ">>
      [] op = "getSignedUrl" -> <<"Failed to generate signed URL: ">>

\* The backend's own text of the failure call c met.
BackendText(c) ==
    IF calls[c].resp.status = "rejected" THEN calls[c].resp.reason ELSE calls[c].resp.error[1]

BackendFailed(c) == calls[c].resp.status = "rejected" \/ ReturnedError(c)

\* C19: every finished upload, delete or getSignedUrl call whose storage
\* request failed, by a returned error value or by a rejected client call, is
\* rejected with the operation's prefix followed by the backend's text.
C19_EveryFailurePrefixed ==
    \A c \in Started :
        (calls[c].op \in {"upload", "uploadStream", "delete", "getSignedUrl"}
            /\ calls[c].pc = "done" /\ BackendFailed(c)) =>
                /\ calls[c].outcome = "rejected"
                /\ calls[c].value = OperationPrefix(calls[c].op) \o BackendText(c)
RECURSIVE StripLeadingSlashes(_)
StripLeadingSlashes(s) ==
    IF s # <<>> /\ Head(s) = "/" THEN StripLeadingSlashes(Tail(s)) ELSE s

RECURSIVE StripTrailingSlashes(_)
StripTrailingSlashes(s) ==
    IF s # <<>> /\ s[Len(s)] = "/" THEN StripTrailingSlashes(SubSeq(s, 1, Len(s) - 1)) ELSE s

\* The directory with all leading and trailing slashes removed.
StripSlashes(s) == StripTrailingSlashes(StripLeadingSlashes(s))

\* The keys the provider has sent to the storage client for record f.
KeysSentFor(f) ==
    {clientCalls[i].path : i \in {j \in 1..Len(clientCalls) :
        clientCalls[j].method = "upload" /\ calls[clientCalls[j].call].file = f}}
    \cup
    {clientCalls[i].path[1] : i \in {j \in 1..Len(clientCalls) :
        clientCalls[j].method = "remove" /\ calls[clientCalls[j].call].file = f}}

\* C20: with a non-empty directory, every object key built by getPathKey is
\* the directory stripped of its leading and trailing slashes, one '/', then
\* hash+ext; the key never starts with '/'.
C20_KeyStripsDirectorySlashes ==
    (phase = "ready" /\ directory # <<>>) =>
        \A f \in FileIds : \A key \in KeysSentFor(f) :
            /\ key = StripSlashes(directory) \o <<"/">> \o files[f].hash \o files[f].ext
            /\ Head(key) # "/"
(* --------------------------- getPathKey over clean inputs --------------- *)

\* Directories without leading, trailing or doubled slashes, as in
\* utils.test.ts; absent stands for the default ''.
CleanDirectories == {Absent, Some(<<>>), Some(<<"u", "p">>), Some(<<"a", "/", "b">>)}

\* Hashes as Strapi generates them and extensions as path.extname gives them.
Hashes == {<<"a", "b">>, <<"c">>, <<"a", "_", "1">>}

Exts == {<<>>, <<".", "j">>, <<".", "p">>}

PathConfigs == {[DefaultConfig EXCEPT !.directory = d] : d \in CleanDirectories}

PathFiles ==
    { [f \in FileIds |-> [InitialFiles[f] EXCEPT !.hash = h[f], !.ext = e[f]]] :
        h \in [FileIds -> Hashes], e \in [FileIds -> Exts] }

PathInit ==
    /\ config \in PathConfigs
    /\ phase = "init"
    /\ initError = NoError
    /\ directory = Undefined
    /\ publicFiles = Undefined
    /\ signedUrlExpires = Undefined
    /\ storageClient = NoClient
    /\ files \in PathFiles
    /\ calls = <<>>
    /\ clientCalls = <<>>
    /\ objects = {}

PathNext ==
    \/ Construct
    \/ \E f \in FileIds : Upload(f)
    \/ \E f \in FileIds : Delete(f)

PathSpec == PathInit /\ [][PathNext]_vars

\* s ends with the characters of t.
EndsWith(s, t) == Len(s) >= Len(t) /\ SubSeq(s, Len(s) - Len(t) + 1, Len(s)) = t

\* C21: with an empty directory the key is hash+ext unchanged; with a clean
\* directory it is directory + '/' + hash+ext.  The key ends in hash+ext and
\* holds no backslash.
C21_KeyOfCleanDirectory ==
    phase = "ready" =>
        \A f \in FileIds : \A key \in KeysSentFor(f) :
            LET leaf == files[f].hash \o files[f].ext IN
            /\ directory = <<>> => key = leaf
            /\ directory # <<>> => key = directory \o <<"/">> \o leaf
            /\ EndsWith(key, leaf)
            /\ \A i \in 1..Len(key) : key[i] # "\\"

\* With directory 'a/b' a file with hash 'a_1' and ext '.j' was sent to key
\* 'a/b/a_1.j'.
C21_Witness ==
    /\ phase = "ready"
    /\ directory = <<"a", "/", "b">>
    /\ \E f \in FileIds :
        /\ files[f].hash = <<"a", "_", "1">>
        /\ KeysSentFor(f) = {<<"a", "/", "b", "/", "a", "_", "1", ".", "j">>}
\* C22: after a successful construction directory, publicFiles and
\* signedUrlExpires hold the supplied option, or '', true and 3600 when the
\* option was not supplied; every signed-link request carries
\* signedUrlExpires as its lifetime.
C22_DefaultsApplied ==
    phase = "ready" =>
        /\ config.directory = Absent => directory = <<>>
        /\ config.directory # Absent => directory = config.directory[1]
        /\ config.publicFiles = Absent => publicFiles = TRUE
        /\ config.publicFiles # Absent => publicFiles = config.publicFiles[1]
        /\ config.signedUrlExpires = Absent => signedUrlExpires = 3600
        /\ config.signedUrlExpires # Absent => signedUrlExpires = config.signedUrlExpires[1]
        /\ \A i \in 1..Len(clientCalls) :
                clientCalls[i].method = "createSignedUrl" =>
                    clientCalls[i].expiresIn =
                        (IF config.signedUrlExpires = Absent THEN 3600
                         ELSE config.signedUrlExpires[1])

\* A provider configured private with signedUrlExpires 7200 asked for a
\* signed link of 7200 seconds.
C22_Witness ==
    /\ phase = "ready"
    /\ config.publicFiles = Some(FALSE) /\ publicFiles = FALSE
    /\ config.signedUrlExpires = Some(7200) /\ signedUrlExpires = 7200
    /\ \E i \in 1..Len(clientCalls) :
            clientCalls[i].method = "createSignedUrl" /\ clientCalls[i].expiresIn = 7200
\* The positions in clientCalls of every request made by call c.
AllClientCallsOf(c) == {i \in 1..Len(clientCalls) : clientCalls[i].call = c}

\* The backend method an operation addresses.
BackendMethodOf(op) ==
    CASE op \in {"upload", "uploadStream"} -> "upload"
      [] op = "delete" -> "remove"
      [] op = "getSignedUrl" -> "createSignedUrl"

\* Call c is one that goes to the backend.
GoesToBackend(c) ==
    \/ calls[c].op \in {"upload", "uploadStream", "delete"}
    \/ calls[c].op = "getSignedUrl" /\ publicFiles = FALSE

C23_OneRequestPerCall ==
    \A c \in Started :
        GoesToBackend(c) =>
            /\ Cardinality(ClientCallsOf(c, BackendMethodOf(calls[c].op))) = 1
            /\ \A i \in AllClientCallsOf(c) :
                    clientCalls[i].method \in {BackendMethodOf(calls[c].op), "getPublicUrl"}
            /\ BackendFailed(c) =>
                    /\ Cardinality(AllClientCallsOf(c)) = 1
                    /\ calls[c].pc = "done" => calls[c].outcome = "rejected"

C23_NoRequestAfterFailureStep ==
    \A c \in Started :
        BackendFailed(c) =>
            /\ AllClientCallsOf(c)' = AllClientCallsOf(c)
            /\ calls'[c].pc \in {"resume", "done"}

\* C23: an upload, delete or private getSignedUrl call sends exactly one
\* request of its kind; once the backend has answered it with a failure the
\* call sends nothing more and ends rejected.
C23_NoRetry == []C23_OneRequestPerCall /\ [][C23_NoRequestAfterFailureStep]_vars

\* A delete refused by the backend was reported to the caller after a single
\* remove request.
C23_Witness ==
    \E c \in Started :
        /\ calls[c].op = "delete" /\ ReturnedError(c)
        /\ calls[c].pc = "done" /\ calls[c].outcome = "rejected"
        /\ Cardinality(ClientCallsOf(c, "remove")) = 1
\* Call c is the only call made on its FileRecord.
OnlyCallOn(c) == \A d \in Started \ {c} : calls[d].file # calls[c].file

\* What call c sends, returns and leaves in file.url when it runs alone on a
\* provider of this configuration, given the backend's answer to it.
AloneKey(c) == getPathKey(InitialFiles[calls[c].file], directory)

AlonePath(c) ==
    CASE IsUploadCall(c) -> AloneKey(c)
      [] calls[c].op = "delete" -> <<AloneKey(c)>>
      [] calls[c].op = "getSignedUrl" -> InitialFiles[calls[c].file].url

AloneOutcome(c) ==
    IF calls[c].op = "getSignedUrl" /\ publicFiles = TRUE THEN "resolved"
    ELSE IF BackendFailed(c) THEN "rejected" ELSE "resolved"

AloneValue(c) ==
    IF calls[c].op = "getSignedUrl" /\ publicFiles = TRUE
    THEN <<InitialFiles[calls[c].file].url>>
    ELSE IF BackendFailed(c) /\ calls[c].resp.status = "rejected" THEN calls[c].resp.reason
    ELSE IF BackendFailed(c) THEN OperationPrefix(calls[c].op) \o calls[c].resp.error[1]
    ELSE IF calls[c].op = "getSignedUrl"
    THEN <<SignedUrlOf(storageClient, config.bucket[1], InitialFiles[calls[c].file].url)>>
    ELSE <<>>

AloneUrl(c) ==
    IF IsUploadCall(c) /\ calls[c].pc = "done" /\ calls[c].outcome = "resolved"
    THEN IF publicFiles = TRUE
         THEN PublicUrlOf(storageClient, config.bucket[1], AloneKey(c))
         ELSE AloneKey(c)
    ELSE InitialFiles[calls[c].file].url

C24_EachCallAsAlone ==
    \A c \in Started :
        (OnlyCallOn(c) /\ calls[c].op \in {"upload", "uploadStream", "delete", "getSignedUrl"}) =>
            /\ \A i \in ClientCallsOf(c, BackendMethodOf(calls[c].op)) :
                    clientCalls[i].path = AlonePath(c)
            /\ calls[c].pc = "done" =>
                    /\ calls[c].outcome = AloneOutcome(c)
                    /\ calls[c].value = AloneValue(c)
            /\ files[calls[c].file].url = AloneUrl(c)

C24_NoForeignWriteStep ==
    /\ config' = config
    /\ phase = "ready" => adapter' = adapter
    /\ \A f \in FileIds :
            files'[f] # files[f] =>
                \E c \in Started :
                    /\ IsUploadCall(c) /\ calls[c].file = f
                    /\ calls[c].pc = "resume" /\ calls'[c].pc = "done"

\* C24: with calls on distinct FileRecords in flight together, under every
\* order of the backend's answers each call sends the key, leaves the
\* file.url and reports the outcome it has when run alone; a FileRecord is
\* written only by an upload of that record, and the configuration and the
\* provider's constants never change.
C24_ConcurrentCallsIndependent ==
    []C24_EachCallAsAlone /\ [][C24_NoForeignWriteStep]_vars

\* Two uploads on distinct records were in flight together; the later one
\* was answered first and has set its file.url while the earlier one is
\* still waiting.
C24_Witness ==
    /\ Len(calls) = 2
    /\ IsUploadCall(1) /\ IsUploadCall(2) /\ calls[1].file # calls[2].file
    /\ calls[1].pc = "await"
    /\ calls[2].pc = "done" /\ calls[2].outcome = "resolved"
    /\ files[calls[2].file].url = AloneUrl(2)
    /\ files[calls[1].file].url = InitialFiles[calls[1].file].url
C25_HandleAsConfigured ==
    /\ phase # "ready" => storageClient = NoClient /\ clientCalls = <<>>
    /\ phase = "ready" =>
            /\ storageClient.headers.apikey = config.apiKey[1]
            /\ storageClient.headers.Authorization = <<"Bearer ">> \o config.apiKey[1]
            /\ storageClient.url = config.apiUrl[1] \o <<"/storage/v1">>
            /\ \A i \in 1..Len(clientCalls) : clientCalls[i].bucket = config.bucket[1]

C25_HandleCreatedOnceStep ==
    /\ storageClient' # storageClient =>
            /\ phase = "init" /\ phase' = "ready"
            /\ storageClient = NoClient
    /\ phase = "init" => clientCalls' = <<>>

\* C25: a successful construction creates the storage client once, with
\* headers apikey = apiKey and Authorization = 'Bearer ' + apiKey, and sends
\* nothing; the handle is never replaced, and every later client call
\* targets the configured bucket.
C25_SingleClientHandle == []C25_HandleAsConfigured /\ [][C25_HandleCreatedOnceStep]_vars

\* On a constructed provider a request has gone out to the configured bucket.
C25_Witness ==
    /\ phase = "ready"
    /\ storageClient.headers = [apikey |-> ApiKey, Authorization |-> <<"Bearer ", "test-key">>]
    /\ Len(clientCalls) = 2
    /\ clientCalls[2].bucket = Bucket
(* --------------------------- getStorageEndpoint over project URLs ------- *)

\* Project URLs without and with trailing slashes, as in utils.test.ts.
EndpointApiUrls ==
    {ApiUrl, ApiUrl \o <<"/">>, ApiUrl \o <<"/", "/">>, <<"h", "t", "t", "p", ":", "/", "/", "x">>}

EndpointConfigs ==
    { [apiUrl |-> Some(a), apiKey |-> Some(ApiKey), bucket |-> Some(Bucket),
       directory |-> o.directory, publicFiles |-> o.publicFiles,
       signedUrlExpires |-> o.signedUrlExpires] :
        a \in EndpointApiUrls, o \in OptionalChoices }

EndpointInit ==
    /\ config \in EndpointConfigs
    /\ phase = "init"
    /\ initError = NoError
    /\ directory = Undefined
    /\ publicFiles = Undefined
    /\ signedUrlExpires = Undefined
    /\ storageClient = NoClient
    /\ files = InitialFiles
    /\ calls = <<>>
    /\ clientCalls = <<>>
    /\ objects = {}

EndpointNext ==
    \/ Construct
    \/ \E f \in FileIds : Upload(f)
    \/ \E c \in CallIds : BackendSucceeds(c)
    \/ \E c \in CallIds : UploadFileResume(c)

EndpointSpec == EndpointInit /\ [][EndpointNext]_vars

\* C26: the endpoint the client is created with is apiUrl immediately
\* followed by '/storage/v1'; a trailing '/' of apiUrl is kept, so the
\* result then holds '//storage/v1'.
C26_EndpointIsPlainConcatenation ==
    phase = "ready" =>
        LET apiUrl == config.apiUrl[1]
            endpoint == storageClient.url
        IN  /\ Len(endpoint) = Len(apiUrl) + 1
            /\ SubSeq(endpoint, 1, Len(apiUrl)) = apiUrl
            /\ endpoint[Len(endpoint)] = "/storage/v1"
            /\ apiUrl[Len(apiUrl)] = "/" => endpoint[Len(endpoint) - 1] = "/"

\* A provider constructed with a project URL ending in '/' holds an endpoint
\* with '//storage/v1', and an uploaded file's public URL carries it.
C26_Witness ==
    /\ phase = "ready"
    /\ config.apiUrl[1] = ApiUrl \o <<"/">>
    /\ storageClient.url = <<"https://test.supabase.co", "/", "/storage/v1">>
    /\ \E f \in FileIds :
            /\ Len(files[f].url) > 3
            /\ SubSeq(files[f].url, 1, 3) = storageClient.url
(* --------------------------- bytesToHumanReadable over byte counts ------ *)

\* Byte counts from 0 up to beyond the last unit, by their base-1000 groups:
\* 0, 1, 500, 999, 1000, 1500, 999999, 1234567, 1500000, 1.5e9, 1.5e12,
\* 1.5e15, 999.5e15 and 2e18.
ByteCounts ==
    { <<0>>, <<1>>, <<500>>, <<999>>, <<1, 0>>, <<1, 500>>, <<999, 999>>,
      <<1, 234, 567>>, <<1, 500, 0>>, <<1, 500, 0, 0>>, <<1, 500, 0, 0, 0>>,
      <<1, 500, 0, 0, 0, 0>>, <<999, 500, 0, 0, 0, 0>>, <<2, 0, 0, 0, 0, 0, 0>> }

\* A direct call of the exported utility; the call record keeps the
\* argument and the string returned.
BytesToHumanReadable(bytes) ==
    /\ Len(calls) < MaxCalls
    /\ calls' = Append(calls,
            [NewCall("bytesToHumanReadable", 0, "done", <<>>, "returned",
                     <<bytesToHumanReadable(bytes)>>)
             EXCEPT !.bytes = bytes])
    /\ UNCHANGED <<config, phase, initError, directory, publicFiles,
                   signedUrlExpires, storageClient, files, clientCalls, objects>>

BytesInit ==
    /\ config = DefaultConfig
    /\ phase = "init"
    /\ initError = NoError
    /\ directory = Undefined
    /\ publicFiles = Undefined
    /\ signedUrlExpires = Undefined
    /\ storageClient = NoClient
    /\ files = InitialFiles
    /\ calls = <<>>
    /\ clientCalls = <<>>
    /\ objects = {}

BytesNext ==
    \/ Construct
    \/ \E bytes \in ByteCounts : BytesToHumanReadable(bytes)

BytesSpec == BytesInit /\ [][BytesNext]_vars

\* The index of the largest unit whose scale 1000^i does not exceed bytes.
LargestUnitIndex(bytes) == IF Len(bytes) - 1 > 5 THEN 5 ELSE Len(bytes) - 1

\* bytes / 1000^i for i = LargestUnitIndex(bytes), in thousandths.
ScaledThousandths(bytes) ==
    LET whole == Len(bytes) - LargestUnitIndex(bytes)
    IN  (IF whole = 1 THEN bytes[1] ELSE bytes[1] * 1000 + bytes[2]) * 1000
            + (IF Len(bytes) > whole THEN bytes[whole + 1] ELSE 0)

\* C27: bytesToHumanReadable(0) is '0 Bytes'; for a positive n the result is
\* n / 1000^i with two decimals, a space and the unit, where the unit is the
\* largest of Bytes, KB, MB, GB, TB, PB whose scale does not exceed n.
C27_LargestUnitTwoDecimals ==
    \A c \in Started :
        calls[c].op = "bytesToHumanReadable" =>
            LET bytes == calls[c].bytes
                text == calls[c].value[1]
            IN  IF bytes = <<0>> THEN text = <<"0", " ", "Bytes">>
                ELSE /\ text[Len(text)] = Units[LargestUnitIndex(bytes) + 1]
                     /\ text[Len(text) - 1] = " "
                     /\ text[Len(text) - 4] = "."
                     /\ text = ToFixed2(ScaledThousandths(bytes), 1000) \o <<" ">>
                                \o <<Units[LargestUnitIndex(bytes) + 1]>>
(* --------------------------- keys of different files -------------------- *)

\* Directories as configured by a host: none, clean, nested, with slashes.
KeyDirectories ==
    {Absent, Some(<<"u", "p">>), Some(<<"/", "u", "p", "/">>), Some(<<"a", "/", "b">>)}

KeyConfigs == {[DefaultConfig EXCEPT !.directory = d] : d \in KeyDirectories}

\* Two records whose hash and ext are equal or differ in either part.
KeyFiles ==
    { [f \in FileIds |-> [InitialFiles[f] EXCEPT !.hash = h[f], !.ext = e[f]]] :
        h \in [FileIds -> {<<"a", "b">>, <<"c">>}],
        e \in [FileIds -> {<<>>, <<".", "j">>}] }

KeyInit ==
    /\ config \in KeyConfigs
    /\ phase = "init"
    /\ initError = NoError
    /\ directory = Undefined
    /\ publicFiles = Undefined
    /\ signedUrlExpires = Undefined
    /\ storageClient = NoClient
    /\ files \in KeyFiles
    /\ calls = <<>>
    /\ clientCalls = <<>>
    /\ objects = {}

KeyNext ==
    \/ Construct
    \/ \E f \in FileIds : Upload(f)
    \/ \E f \in FileIds : Delete(f)
    \/ \E c \in CallIds : BackendSucceeds(c)
    \/ \E c \in CallIds : UploadFileResume(c)
    \/ \E c \in CallIds : DeleteResume(c)

KeySpec == KeyInit /\ [][KeyNext]_vars

Leaf(f) == files[f].hash \o files[f].ext

C28_DistinctLeavesDistinctKeys ==
    \A f, g \in FileIds :
        Leaf(f) # Leaf(g) => KeysSentFor(f) \cap KeysSentFor(g) = {}

\* An object leaves the store, or is replaced, only by a request made for a
\* file with the same hash+ext as the file it was uploaded for.
C28_OwnObjectOnlyStep ==
    \A o \in objects \ objects' :
        \E c \in Started :
            /\ calls[c].pc = "await" /\ calls'[c].pc = "resume"
            /\ Leaf(calls[c].file) = Leaf(calls[o.writtenBy].file)

\* C28: under one directory, files whose hash+ext differ are sent to
\* different keys, so an upload or delete of one never replaces or removes
\* the object of another.
C28_NoKeyCollision == []C28_DistinctLeavesDistinctKeys /\ [][C28_OwnObjectOnlyStep]_vars

\* Two files that differ only in ext were both uploaded under directory
\* '/up/' and the store holds one object for each.
C28_Witness ==
    /\ phase = "ready" /\ directory = <<"/", "u", "p", "/">>
    /\ files[1].hash = files[2].hash /\ files[1].ext # files[2].ext
    /\ \E o, p \in objects :
            /\ calls[o.writtenBy].file = 1 /\ calls[p.writtenBy].file = 2
            /\ o.key # p.key
\* What an operation sends, as a function of the configuration and the
\* FileRecord alone (for getSignedUrl, file.url as read at the call).
StatelessRequest(c) ==
    LET file == files[calls[c].file]
        key == getPathKey(file, directory)
    IN  CASE IsUploadCall(c) ->
                [call |-> 0, method |-> "upload", bucket |-> config.bucket[1], path |-> key,
                 body |-> (IF file.stream # Absent THEN file.stream ELSE file.buffer),
                 expiresIn |-> 0,
                 options |-> [contentType |-> file.mime, duplex |-> "half", upsert |-> TRUE,
                              cacheControl |-> "3600"]]
          [] calls[c].op = "delete" ->
                [call |-> 0, method |-> "remove", bucket |-> config.bucket[1],
                 path |-> <<key>>, body |-> Absent, expiresIn |-> 0, options |-> NoOptions]
          [] calls[c].op = "getSignedUrl" ->
                [call |-> 0, method |-> "createSignedUrl", bucket |-> config.bucket[1],
                 path |-> calls[c].filePath, body |-> Absent,
                 expiresIn |-> signedUrlExpires, options |-> NoOptions]

\* How a call that went to the backend ends, as a function of the answer.
StatelessOutcome(c) == IF BackendFailed(c) THEN "rejected" ELSE "resolved"

StatelessValue(c) ==
    IF calls[c].resp.status = "rejected" THEN calls[c].resp.reason
    ELSE IF ReturnedError(c) THEN OperationPrefix(calls[c].op) \o calls[c].resp.error[1]
    ELSE IF calls[c].op = "getSignedUrl" THEN <<calls[c].resp.data[1].signedUrl>>
    ELSE <<>>

C29_RequestAndResultByInputs ==
    \A c \in Started :
        GoesToBackend(c) =>
            /\ \A i \in ClientCallsOf(c, BackendMethodOf(calls[c].op)) :
                    [clientCalls[i] EXCEPT !.call = 0] = StatelessRequest(c)
            /\ calls[c].pc = "done" =>
                    /\ calls[c].outcome = StatelessOutcome(c)
                    /\ calls[c].value = StatelessValue(c)

C29_UrlByInputsStep ==
    /\ \A c \in Started :
            (IsUploadCall(c) /\ calls[c].pc = "resume" /\ calls'[c].outcome = "resolved") =>
                LET f == calls[c].file
                    key == getPathKey(files[f], directory)
                IN  files'[f].url =
                        (IF publicFiles = TRUE
                         THEN PublicUrlOf(storageClient, config.bucket[1], key)
                         ELSE key)
    /\ CallStep("getSignedUrl") =>
            LET call == calls'[Len(calls')]
            IN  IF publicFiles = TRUE
                THEN call.value = <<files[call.file].url>> /\ clientCalls' = clientCalls
                ELSE call.filePath = files[call.file].url

\* C29: whatever was called before, the request an operation sends, its
\* result and the file.url it leaves are given by the configuration, the
\* FileRecord passed in and the backend's answer to that call.
C29_NoStateAcrossCalls == []C29_RequestAndResultByInputs /\ [][C29_UrlByInputsStep]_vars

\* After an upload of file 2, an upload of file 1 went out with file 1's own
\* key and resolved.
C29_Witness ==
    /\ Len(calls) = 2
    /\ IsUploadCall(1) /\ calls[1].file = 2
    /\ IsUploadCall(2) /\ calls[2].file = 1
    /\ calls[2].pc = "done" /\ calls[2].outcome = "resolved"
    /\ calls[2].filePath = getPathKey(files[1], directory)
    /\ calls[2].filePath # calls[1].filePath
\* A FileRecord without its url.
AllButUrl(file) ==
    [name |-> file.name, hash |-> file.hash, ext |-> file.ext, mime |-> file.mime,
     size |-> file.size, buffer |-> file.buffer, stream |-> file.stream]

C30_ContentTypeIsMime ==
    /\ \A f \in FileIds : AllButUrl(files[f]) = AllButUrl(InitialFiles[f])
    /\ \A c \in Started :
            IsUploadCall(c) =>
                \A i \in ClientCallsOf(c, "upload") :
                    clientCalls[i].options.contentType = InitialFiles[calls[c].file].mime

C30_OnlyUrlChangesStep ==
    \A f \in FileIds : AllButUrl(files'[f]) = AllButUrl(files[f])

\* C30: through upload and uploadStream calls, resolved or rejected, name,
\* hash, ext, mime, size, buffer and stream of every FileRecord stay as they
\* were; the content type sent is the record's mime.
C30_UploadFrame == []C30_ContentTypeIsMime /\ [][C30_OnlyUrlChangesStep]_vars

\* One upload of file 1 resolved and set its url, another was rejected; the
\* rest of the record is as it was.
C30_Witness ==
    \E c, d \in Started :
        /\ IsUploadCall(c) /\ IsUploadCall(d)
        /\ calls[c].file = 1 /\ calls[d].file = 1
        /\ calls[c].outcome = "resolved" /\ calls[d].outcome = "rejected"
        /\ files[1].url # InitialFiles[1].url
        /\ AllButUrl(files[1]) = AllButUrl(InitialFiles[1])
====
